---- MODULE Spec2Model ----
(***************************************************************************)
(* The scored-transaction pipeline of airflow/dags/fraud_pipeline_dag.py:  *)
(* extract_validate >> transform >> score_sagemaker >> load_to_postgres    *)
(* >> is_fraud >> send_fraud_email, scheduled with max_active_runs = 1.    *)
(*                                                                         *)
(* Values.  A JSON cell is a string; the JSON null / Python None is the    *)
(* token Null.  A probability p is the integer 100 * p (0.82 is 82), so    *)
(* that >= on floats is >= on integers.  A row is a function from column   *)
(* names to cells (the dict of df.iloc[0].to_dict()).                      *)
(***************************************************************************)
EXTENDS Integers, Sequences, FiniteSets, TLC

\* ------------------------------------------------------------------ bounds

\* Number of DAG runs the scheduler creates in a behaviour.
MaxRuns == 2

\* Number of run slots the model tracks (runs that could be alive at once).
MaxSlots == 2

\* ------------------------------------------------------- program constants

\* FRAUD_THRESHOLD = float(os.getenv("FRAUD_THRESHOLD", "0.5")), times 100.
FRAUD_THRESHOLD == 50

\* DAG(max_active_runs=1)
max_active_runs == 1

\* requests.get(..., timeout=20)
FEED_TIMEOUT == 20

Null == "<null>"

NoError == "none"

\* ------------------------------------------------------------- the DAG

Tasks ==
    << "extract_validate", "transform", "score_sagemaker",
       "load_to_postgres", "is_fraud", "send_fraud_email" >>

TaskIds == { Tasks[i] : i \in 1..Len(Tasks) }

TaskIndex(t) == CHOOSE i \in 1..Len(Tasks) : Tasks[i] = t

\* t1 >> t2 >> t3 >> t4 >> t5 >> t6: the direct upstream tasks of t.
Upstream(t) ==
    IF TaskIndex(t) = 1 THEN {} ELSE { Tasks[TaskIndex(t) - 1] }

RECURSIVE Downstream(_)
\* Every task that transitively depends on t.
Downstream(t) ==
    LET direct == { d \in TaskIds : t \in Upstream(d) }
    IN  direct \cup UNION { Downstream(d) : d \in direct }

DownstreamOf == [ t \in TaskIds |-> Downstream(t) ]

RunSlots == 1..MaxSlots

\* ------------------------------------------------------- the upstream feed

\* Columns of the feed that the model carries (a subset of the 22 of the
\* payments table; the others are handled by the same code paths).
TransNums == { "T1", "T2" }

BaseRow ==
    [ trans_num    |-> "T1",
      current_time |-> "100",
      cc_num       |-> "4242",
      merchant     |-> "fraud_Kirlin",
      category     |-> "grocery_pos",
      amt          |-> "42.5",
      gender       |-> "M",
      is_fraud     |-> "0" ]

\* The order the feed lists its columns in.
FeedColumns ==
    << "trans_num", "current_time", "cc_num", "merchant", "category",
       "amt", "gender", "is_fraud" >>

\* Well-formed rows: both identifiers, each with two sets of raw values.
NormalRows ==
    { [ BaseRow EXCEPT !.trans_num = t, !.amt = v[1], !.gender = v[2],
                       !.current_time = v[3] ] :
        t \in TransNums,
        v \in { << "42.5", "M", "100" >>, << "99.0", "F", "200" >> } }

\* Rows with one defect each.
OddRows ==
    { [ BaseRow EXCEPT !.trans_num = "" ],
      [ BaseRow EXCEPT !.trans_num = Null ],
      [ BaseRow EXCEPT !.current_time = Null ],
      [ BaseRow EXCEPT !.current_time = "abc" ],
      [ BaseRow EXCEPT !.cc_num = Null ],
      [ BaseRow EXCEPT !.gender = "X" ] }

FeedRows == NormalRows \cup OddRows

\* The column lists a payload may carry: all columns, or one column missing.
ColumnLists ==
    { FeedColumns,
      SelectSeq(FeedColumns, LAMBDA c : c # "trans_num"),
      SelectSeq(FeedColumns, LAMBDA c : c # "current_time"),
      SelectSeq(FeedColumns, LAMBDA c : c # "category") }

\* The list of cells of row under the column list cols.
Cells(row, cols) == [ i \in 1..Len(cols) |-> row[cols[i]] ]

\* The second row of a two-row payload: another transaction.
OtherRow ==
    [ BaseRow EXCEPT !.trans_num = "T9", !.amt = "7.0", !.gender = "F",
                     !.current_time = "300" ]

\* A record with further columns of the feed: the other timestamps, the
\* holder's name, address and date of birth, and the state.
WideRow ==
    [ trans_num    |-> "T2",
      current_time |-> "200",
      cc_num       |-> "4242",
      merchant     |-> "fraud_Kirlin",
      category     |-> "misc_net",
      amt          |-> "99.0",
      gender       |-> "F",
      is_fraud     |-> "1",
      trans_date_trans_time |-> "2020-06-21 12:14:25",
      unix_time    |-> "1371816865",
      first        |-> "Jeff",
      last         |-> "Elliott",
      street       |-> "351 Darlene Green",
      city         |-> "Columbia",
      state        |-> "SC",
      dob          |-> "1968-03-19" ]

WideColumns ==
    FeedColumns \o << "trans_date_trans_time", "unix_time", "first", "last",
                      "street", "city", "state", "dob" >>

\* The decoded payloads: all columns with no row, one row, or a first row
\* followed by a second one; one row under a shorter column list; one row
\* under the longer one.
Payloads ==
    { [ columns |-> FeedColumns, data |-> d ] :
        d \in { << >> }
              \cup { << Cells(r, FeedColumns) >> : r \in FeedRows }
              \cup { << Cells(r, FeedColumns), Cells(OtherRow, FeedColumns) >> :
                      r \in NormalRows } }
    \cup { [ columns |-> cols, data |-> << Cells(BaseRow, cols) >> ] :
            cols \in ColumnLists }
    \cup { [ columns |-> FeedColumns, data |-> << << "T1" >> >> ] }
    \cup { [ columns |-> WideColumns, data |-> << Cells(WideRow, WideColumns) >> ] }

\* A JSON document of the feed.  enc is the number of times the document is
\* JSON-encoded: 0 is the decoded object itself, 1 its JSON text, 2 a JSON
\* string holding that text.  valid is false for text that is not JSON.
\* keys are the keys of the object.
Documents ==
    { [ enc |-> 2, valid |-> TRUE, keys |-> { "columns", "data" },
        columns |-> p.columns, data |-> p.data ] : p \in Payloads }
    \cup
    { [ enc |-> e, valid |-> v, keys |-> k,
        columns |-> FeedColumns, data |-> d ] :
        e \in 1..3, v \in BOOLEAN, k \in { { "columns", "data" }, { "columns" } },
        d \in { << Cells(BaseRow, FeedColumns) >>,
                << Cells(BaseRow, FeedColumns), Cells(OtherRow, FeedColumns) >> } }

\* What requests.get returns or raises: elapsed is the seconds the request
\* took, status the HTTP status, text the body.
FeedResponses ==
    { [ elapsed |-> 1, status |-> 200, text |-> doc ] : doc \in Documents }
    \cup
    { [ elapsed |-> s, status |-> st,
        text |-> [ enc |-> 2, valid |-> TRUE, keys |-> { "columns", "data" },
                   columns |-> FeedColumns,
                   data |-> << Cells(BaseRow, FeedColumns) >> ] ] :
        s \in { 1, FEED_TIMEOUT + 1 }, st \in { 200, 503 } }

\* No response received yet.
NoFeed ==
    [ elapsed |-> 0, status |-> 0,
      text |-> [ enc |-> 0, valid |-> FALSE, keys |-> {},
                 columns |-> << >>, data |-> << >> ] ]

\* ------------------------------------------------------------ extraction

\* The outcome of a computation: ok with a value, or the exception raised.
Ok(v) == [ ok |-> TRUE, error |-> NoError, value |-> v ]

Raise(e, v) == [ ok |-> FALSE, error |-> e, value |-> v ]

\* json.loads(x): a TypeError when x is not text (an already decoded
\* object), a JSONDecodeError when the text is not JSON, else the value the
\* text encodes: one level of encoding is removed.
json_loads(x) ==
    IF x.enc = 0 THEN Raise("TypeError", x)
    ELSE IF ~x.valid THEN Raise("JSONDecodeError", x)
    ELSE Ok([ x EXCEPT !.enc = @ - 1 ])

\* The payload decoded once only.
json_loads_once(text) == json_loads(text)

\* json.loads(json.loads(r.text)): an exception of the inner call propagates.
json_loads_twice(text) ==
    IF json_loads(text).ok THEN json_loads(json_loads(text).value)
    ELSE json_loads(text)

\* pd.DataFrame(data["data"], columns=data["columns"]): subscripting a value
\* that is still a string is a TypeError, a missing key a KeyError, and a row
\* whose length is not the number of columns a ValueError.
DataFrame(data) ==
    IF data.enc # 0 THEN Raise("TypeError", data)
    ELSE IF ~({ "data", "columns" } \subseteq data.keys) THEN Raise("KeyError", data)
    ELSE IF \E i \in 1..Len(data.data) : Len(data.data[i]) # Len(data.columns)
         THEN Raise("ValueError", data)
    ELSE Ok(data)

\* df.empty: some axis has length 0.
df_empty(df) == Len(df.data) = 0 \/ Len(df.columns) = 0

\* df.iloc[0].to_dict(): the first row as a dict from column name to cell.
iloc0_to_dict(df) ==
    [ c \in { df.columns[i] : i \in 1..Len(df.columns) } |->
        df.data[1][CHOOSE i \in 1..Len(df.columns) : df.columns[i] = c] ]

\* row.get(c): the cell, or None when the dict has no such key.
row_get(row, c) == IF c \in DOMAIN row THEN row[c] ELSE Null

\* The test written as "is not None": the empty string passes.
Truthy_not_none(cell) == cell # Null

\* Python truthiness of a cell: None and the empty string are falsy.
Truthy(cell) == cell # Null /\ cell # ""

NoRow == [ c \in {} |-> Null ]

NoExtract == [ trans_num |-> Null, row |-> NoRow ]

\* The body of extract_validate on the response resp of requests.get: the
\* returned dict, or the exception that fails the task.
extract_result(resp) ==
    IF resp.elapsed > FEED_TIMEOUT THEN Raise("Timeout", NoExtract)
    ELSE IF resp.status # 200 THEN Raise("HTTPError", NoExtract)
    ELSE IF ~json_loads_twice(resp.text).ok
         THEN Raise(json_loads_twice(resp.text).error, NoExtract)
    ELSE LET frame == DataFrame(json_loads_twice(resp.text).value)
         IN  IF ~frame.ok THEN Raise(frame.error, NoExtract)
             ELSE IF df_empty(frame.value)
                  THEN Raise("ValueError: API returned empty dataframe", NoExtract)
             ELSE LET row == iloc0_to_dict(frame.value)
                      trans_num == row_get(row, "trans_num")
                  IN  IF ~Truthy(trans_num)
                      THEN Raise("ValueError: Missing trans_num in payload", NoExtract)
                      ELSE Ok([ trans_num |-> trans_num, row |-> row ])

\* -------------------------------------------------------- transformation

\* The drop list of the portable training script in place of the DAG's.
DroppedColumns_portable ==
    { "trans_date_trans_time", "dob", "trans_num", "unix_time",
      "first", "last", "street" }

\* The columns df.drop(columns=[...], errors="ignore") removes.
DroppedColumns ==
    { "is_fraud", "current_time", "trans_date_trans_time", "unix_time",
      "first", "last", "street", "city", "dob", "trans_num", "cc_num" }

\* X["gender"].map({"M": 0, "F": 1}): any other value maps to NaN.
gender_map(g) == IF g = "M" THEN "0" ELSE IF g = "F" THEN "1" ELSE "nan"

\* The frame X handed to the artifact: the row without the dropped columns,
\* gender recoded when the column is there.
frame_X(row) ==
    [ c \in DOMAIN row \ DroppedColumns |->
        IF c = "gender" THEN gender_map(row[c]) ELSE row[c] ]

\* The columns the fitted ColumnTransformer selects (those of them the model
\* carries): category (one-hot), merchant (hashed), amt (passed through).
ArtifactColumns == { "category", "merchant", "amt" }

\* OneHotEncoder(handle_unknown="ignore") fitted on two categories.
one_hot(category) ==
    IF category = "grocery_pos" THEN << "1.0", "0.0" >>
    ELSE IF category = "misc_net" THEN << "0.0", "1.0" >>
    ELSE << "0.0", "0.0" >>

\* HashingEncoder.transform: FeatureHasher over X.astype(str), here with two
\* buckets; the bucket and sign depend on the string alone.
hashing(merchant) ==
    IF merchant = "fraud_Kirlin" THEN << "-1.0", "0.0" >> ELSE << "0.0", "1.0" >>

\* str(float(v)) of a numeric cell.
str_float(cell) ==
    IF cell = "42.5" THEN "42.5"
    ELSE IF cell = "99.0" THEN "99.0"
    ELSE IF cell = "7.0" THEN "7.0"
    ELSE "nan"

\* preprocessor.transform(X) followed by the join into csv_line: a ValueError
\* when a column the transformer selects is missing from X.
csv_line_of(X) ==
    IF ~(ArtifactColumns \subseteq DOMAIN X) THEN Raise("ValueError: columns are missing", << >>)
    ELSE Ok(one_hot(X["category"]) \o hashing(X["merchant"]) \o << str_float(X["amt"]) >>)

NoTransform == [ trans_num |-> Null, row |-> NoRow, csv_line |-> << >> ]

\* The body of transform with the gender recoded in the row it returns.
transform_result_recoded(x, artifact_ok) ==
    IF ~artifact_ok THEN Raise("FileNotFoundError", NoTransform)
    ELSE IF ~csv_line_of(frame_X(x.row)).ok
         THEN Raise(csv_line_of(frame_X(x.row)).error, NoTransform)
    ELSE Ok([ trans_num |-> x.trans_num,
              row |-> [ c \in DOMAIN x.row |->
                          IF c = "gender" THEN gender_map(x.row[c]) ELSE x.row[c] ],
              csv_line |-> csv_line_of(frame_X(x.row)).value ])

\* The body of transform on the XCom x of extract_validate; artifact_ok is
\* whether joblib.load(PREPROCESS_PATH) succeeds.
transform_result(x, artifact_ok) ==
    IF ~artifact_ok THEN Raise("FileNotFoundError", NoTransform)
    ELSE IF ~csv_line_of(frame_X(x.row)).ok
         THEN Raise(csv_line_of(frame_X(x.row)).error, NoTransform)
    ELSE Ok([ trans_num |-> x.trans_num, row |-> x.row,
              csv_line |-> csv_line_of(frame_X(x.row)).value ])

\* ----------------------------------------------------------------- scoring

\* The bodies the endpoint may answer with.
Bodies == { "0.10", "0.5", "0.82\n", "1.5", "-0.2", "oops", "" }

\* str.strip()
strip(body) == IF body = "0.82\n" THEN "0.82" ELSE body

\* float(body), times 100: a ValueError when the text is no number.
py_float(body) ==
    IF body = "0.10" THEN Ok(10)
    ELSE IF body = "0.5" THEN Ok(50)
    ELSE IF body = "0.82" THEN Ok(82)
    ELSE IF body = "1.5" THEN Ok(150)
    ELSE IF body = "-0.2" THEN Ok(-20)
    ELSE Raise("ValueError", 0)

\* What smr.invoke_endpoint returns or raises.
EndpointResponses ==
    { [ called |-> TRUE, reached |-> TRUE, Body |-> b ] : b \in Bodies }
    \cup { [ called |-> TRUE, reached |-> FALSE, Body |-> "" ] }

\* The endpoint has not been called.
NoReply == [ called |-> FALSE, reached |-> FALSE, Body |-> "" ]

NoScore ==
    [ trans_num |-> Null, row |-> NoRow, fraud_proba |-> 0,
      fraud_flag |-> FALSE, model_version |-> "" ]

\* The comparison written with > in place of >=.
flag_of_strict(fraud_proba) == fraud_proba > FRAUD_THRESHOLD

\* fraud_flag = fraud_proba >= FRAUD_THRESHOLD
flag_of(fraud_proba) == fraud_proba >= FRAUD_THRESHOLD

\* The body with the failures caught and a score of 0.0 returned for them.
score_result_default(x, resp) ==
    LET fraud_proba ==
            IF resp.reached /\ py_float(strip(resp.Body)).ok
            THEN py_float(strip(resp.Body)).value ELSE 0
    IN  Ok([ trans_num     |-> x.trans_num,
             row           |-> x.row,
             fraud_proba   |-> fraud_proba,
             fraud_flag    |-> flag_of(fraud_proba),
             model_version |-> "xgb-rt" ])

\* The body of score_sagemaker on the XCom x of transform and the endpoint's
\* response.
score_result(x, resp) ==
    IF ~resp.reached THEN Raise("EndpointConnectionError", NoScore)
    ELSE IF ~py_float(strip(resp.Body)).ok THEN Raise("ValueError", NoScore)
    ELSE LET fraud_proba == py_float(strip(resp.Body)).value
         IN  Ok([ trans_num     |-> x.trans_num,
                  row           |-> x.row,
                  fraud_proba   |-> fraud_proba,
                  fraud_flag    |-> flag_of(fraud_proba),
                  model_version |-> "xgb-rt" ])

\* ------------------------------------------------------------- persistence

\* The conversion falling back to 0 where int() raises.
py_int_or_zero(cell) ==
    IF cell = "100" THEN Ok(100)
    ELSE IF cell = "200" THEN Ok(200)
    ELSE IF cell = "300" THEN Ok(300)
    ELSE Ok(0)

\* int(event_time): a TypeError on None, a ValueError on text that is no
\* integer.
py_int(cell) ==
    IF cell = Null THEN Raise("TypeError", 0)
    ELSE IF cell = "100" THEN Ok(100)
    ELSE IF cell = "200" THEN Ok(200)
    ELSE IF cell = "300" THEN Ok(300)
    ELSE Raise("ValueError", 0)

\* str(v) of a cell: cells are held as their text already.
py_str(cell) == cell

\* The raw columns of the INSERT that the model carries, besides trans_num
\* and event_time.
RawColumns == { "cc_num", "merchant", "category", "amt", "gender" }

\* The params dict of load_to_postgres (event_time already converted).
params_of(x, event_time) ==
    [ trans_num     |-> x.trans_num,
      event_time    |-> event_time,
      cc_num        |-> IF row_get(x.row, "cc_num") # Null
                        THEN py_str(row_get(x.row, "cc_num")) ELSE Null,
      merchant      |-> row_get(x.row, "merchant"),
      category      |-> row_get(x.row, "category"),
      amt           |-> row_get(x.row, "amt"),
      gender        |-> row_get(x.row, "gender"),
      fraud_proba   |-> x.fraud_proba,
      fraud_flag    |-> x.fraud_flag,
      model_version |-> x.model_version ]

\* The value a new row's ingested_at takes: the column's default.
ingested_at_default(clock) == clock

\* The table row that params become, ingested at time clock.
table_row(params, ingested_at) ==
    [ trans_num     |-> params.trans_num,
      event_time    |-> params.event_time,
      cc_num        |-> params.cc_num,
      merchant      |-> params.merchant,
      category      |-> params.category,
      amt           |-> params.amt,
      gender        |-> params.gender,
      fraud_proba   |-> params.fraud_proba,
      fraud_flag    |-> params.fraud_flag,
      model_version |-> params.model_version,
      ingested_at   |-> ingested_at ]

\* A plain INSERT into a table without the unique index on trans_num.
upsert_insert_only(table, params, clock) ==
    table \cup { table_row(params, ingested_at_default(clock)) }

\* The statement without ingested_at = now() in its SET list: a replaced row
\* keeps the ingestion time it had.
upsert_keep_ingested(table, params, clock) ==
    IF \E old \in table : old.trans_num = params.trans_num
    THEN { old \in table : old.trans_num # params.trans_num }
         \cup { table_row(params, old.ingested_at) :
                 old \in { o \in table : o.trans_num = params.trans_num } }
    ELSE table \cup { table_row(params, ingested_at_default(clock)) }

\* The statement with ON CONFLICT (trans_num) DO NOTHING: a conflicting row
\* is kept as it is.
upsert_do_nothing(table, params, clock) ==
    IF \E old \in table : old.trans_num = params.trans_num
    THEN table
    ELSE table \cup { table_row(params, ingested_at_default(clock)) }

\* The statement with amt and model_version left out of the SET list.
upsert_partial(table, params, clock) ==
    IF \E old \in table : old.trans_num = params.trans_num
    THEN { old \in table : old.trans_num # params.trans_num }
         \cup { [ table_row(params, clock) EXCEPT
                    !.amt = old.amt, !.model_version = old.model_version ] :
                 old \in { o \in table : o.trans_num = params.trans_num } }
    ELSE table \cup { table_row(params, ingested_at_default(clock)) }

\* INSERT ... ON CONFLICT (trans_num) DO UPDATE SET <every column> =
\* EXCLUDED.<column>, ingested_at = now(): the table after the statement.
upsert(table, params, clock) ==
    IF \E old \in table : old.trans_num = params.trans_num
    THEN { old \in table : old.trans_num # params.trans_num }
         \cup { table_row(params, clock) }
    ELSE table \cup { table_row(params, ingested_at_default(clock)) }

NoLoad == [ trans_num |-> Null, fraud_flag |-> FALSE, fraud_proba |-> 0 ]

\* ------------------------------------------------------------------- state

VARIABLES
    ti,        \* ti[r][t]: the state of task t of the run in slot r
    alive,     \* alive[r]: slot r holds a run
    xcom,      \* xcom[r][t]: the value task t of run r returned
    error,     \* error[r]: the exception that failed a task of run r
    store,     \* the rows of public.payments_scored
    outbox,    \* outbox[r]: the e-mails run r handed to the SMTP connection
    clock,     \* the database's now()
    nruns,     \* the number of runs the scheduler has created
    feed,      \* feed[r]: the response requests.get gave run r
    reply,     \* reply[r]: the response invoke_endpoint gave run r
    store0,    \* store0[r]: the table when run r was created
    replaced,  \* replaced[r]: the rows run r's upsert found under its key
    loaded_at, \* loaded_at[r]: the clock when run r's upsert committed, or 0
    try_number, \* try_number[r][t]: how many times task t of run r was executed
    frame      \* frame[r]: the frame X run r handed to preprocessor.transform

vars ==
    << ti, alive, xcom, error, store, outbox, clock, nruns,
       feed, reply, store0, replaced, loaded_at, try_number, frame >>

TaskStates == { "none", "running", "success", "failed", "upstream_failed", "skipped" }

NoXCom ==
    [ extract_validate |-> NoExtract,
      transform        |-> NoTransform,
      score_sagemaker  |-> NoScore,
      load_to_postgres |-> NoLoad ]

Init ==
    /\ ti = [ r \in RunSlots |-> [ t \in TaskIds |-> "none" ] ]
    /\ alive = [ r \in RunSlots |-> FALSE ]
    /\ xcom = [ r \in RunSlots |-> NoXCom ]
    /\ error = [ r \in RunSlots |-> NoError ]
    /\ store = {}
    /\ outbox = [ r \in RunSlots |-> << >> ]
    /\ clock = 0
    /\ nruns = 0
    /\ feed = [ r \in RunSlots |-> NoFeed ]
    /\ reply = [ r \in RunSlots |-> NoReply ]
    /\ store0 = [ r \in RunSlots |-> {} ]
    /\ replaced = [ r \in RunSlots |-> {} ]
    /\ loaded_at = [ r \in RunSlots |-> 0 ]
    /\ try_number = [ r \in RunSlots |-> [ t \in TaskIds |-> 0 ] ]
    /\ frame = [ r \in RunSlots |-> NoRow ]

\* The state of the run in slot r, as Airflow derives it from its tasks.
RunState(r) ==
    IF ~alive[r] THEN "none"
    ELSE IF \E t \in TaskIds : ti[r][t] \in { "none", "running" } THEN "running"
    ELSE IF \E t \in TaskIds : ti[r][t] \in { "failed", "upstream_failed" } THEN "failed"
    ELSE "success"

ActiveRuns == { r \in RunSlots : RunState(r) = "running" }

\* A trigger rule that does not look at the upstream tasks.
Runnable_any(r, t) ==
    /\ alive[r]
    /\ ti[r][t] = "none"

\* Trigger rule all_success: t has not run and every upstream task succeeded.
Runnable(r, t) ==
    /\ alive[r]
    /\ ti[r][t] = "none"
    /\ \A u \in Upstream(t) : ti[r][u] = "success"

\* default_args = {"retries": 0}
retries == 0

\* Task t of run r ends an execution in state st; on a failure its downstream
\* tasks become upstream_failed, on a short-circuit they are skipped.
Finish(r, t, st, down) ==
    /\ ti' = [ ti EXCEPT ![r] =
                [ u \in TaskIds |->
                    IF u = t THEN st
                    ELSE IF u \in DownstreamOf[t] /\ down # "none" THEN down
                    ELSE ti[r][u] ] ]
    /\ try_number' = [ try_number EXCEPT ![r][t] = @ + 1 ]

\* The failure of an execution with one retry allowed: the first failure
\* leaves the task to be executed again.
Fail_retry_once(r, t, e) ==
    /\ IF try_number[r][t] < 1
       THEN Finish(r, t, "none", "none")
       ELSE Finish(r, t, "failed", "upstream_failed")
    /\ error' = [ error EXCEPT ![r] = e ]

\* An execution of t raised e: the task is executed again while it has
\* retries left, and fails otherwise.
Fail(r, t, e) ==
    /\ IF try_number[r][t] < retries
       THEN Finish(r, t, "none", "none")
       ELSE Finish(r, t, "failed", "upstream_failed")
    /\ error' = [ error EXCEPT ![r] = e ]

Succeed(r, t) ==
    /\ Finish(r, t, "success", "none")
    /\ UNCHANGED error

Return(r, t, v) == xcom' = [ xcom EXCEPT ![r][t] = v ]

\* ----------------------------------------------------------------- actions

\* The scheduler without the max_active_runs cap.
schedule_run_uncapped ==
    /\ nruns < MaxRuns
    /\ \E r \in RunSlots \ ActiveRuns :
        /\ \A q \in RunSlots \ ActiveRuns : r <= q
        /\ alive' = [ alive EXCEPT ![r] = TRUE ]
        /\ ti' = [ ti EXCEPT ![r] = [ t \in TaskIds |-> "none" ] ]
        /\ xcom' = [ xcom EXCEPT ![r] = NoXCom ]
        /\ error' = [ error EXCEPT ![r] = NoError ]
        /\ outbox' = [ outbox EXCEPT ![r] = << >> ]
        /\ feed' = [ feed EXCEPT ![r] = NoFeed ]
        /\ reply' = [ reply EXCEPT ![r] = NoReply ]
        /\ store0' = [ store0 EXCEPT ![r] = store ]
        /\ replaced' = [ replaced EXCEPT ![r] = {} ]
        /\ loaded_at' = [ loaded_at EXCEPT ![r] = 0 ]
        /\ try_number' = [ try_number EXCEPT ![r] = [ t \in TaskIds |-> 0 ] ]
        /\ frame' = [ frame EXCEPT ![r] = NoRow ]
    /\ nruns' = nruns + 1
    /\ UNCHANGED << store, clock >>

\* The scheduler creates the next run of the DAG ("* * * * *") in the first
\* slot that holds no running run, unless max_active_runs runs are running.
schedule_run ==
    /\ nruns < MaxRuns
    /\ Cardinality(ActiveRuns) < max_active_runs
    /\ \E r \in RunSlots \ ActiveRuns :
        /\ \A q \in RunSlots \ ActiveRuns : r <= q
        /\ alive' = [ alive EXCEPT ![r] = TRUE ]
        /\ ti' = [ ti EXCEPT ![r] = [ t \in TaskIds |-> "none" ] ]
        /\ xcom' = [ xcom EXCEPT ![r] = NoXCom ]
        /\ error' = [ error EXCEPT ![r] = NoError ]
        /\ outbox' = [ outbox EXCEPT ![r] = << >> ]
        /\ feed' = [ feed EXCEPT ![r] = NoFeed ]
        /\ reply' = [ reply EXCEPT ![r] = NoReply ]
        /\ store0' = [ store0 EXCEPT ![r] = store ]
        /\ replaced' = [ replaced EXCEPT ![r] = {} ]
        /\ loaded_at' = [ loaded_at EXCEPT ![r] = 0 ]
        /\ try_number' = [ try_number EXCEPT ![r] = [ t \in TaskIds |-> 0 ] ]
        /\ frame' = [ frame EXCEPT ![r] = NoRow ]
    /\ nruns' = nruns + 1
    /\ UNCHANGED << store, clock >>

extract_validate(r) ==
    /\ Runnable(r, "extract_validate")
    /\ \E resp \in FeedResponses :
        LET res == extract_result(resp)
        IN  /\ feed' = [ feed EXCEPT ![r] = resp ]
            /\ IF res.ok
               THEN Succeed(r, "extract_validate") /\ Return(r, "extract_validate", res.value)
               ELSE Fail(r, "extract_validate", res.error) /\ UNCHANGED xcom
    /\ UNCHANGED << alive, store, outbox, clock, nruns, reply, store0, replaced, loaded_at, frame >>

\* The task with the encoder fitted anew on what the table holds: while no
\* row is stored no category is known to the one-hot encoder.
transform_refit(r) ==
    /\ Runnable(r, "transform")
    /\ \E artifact_ok \in BOOLEAN :
        LET res == transform_result(xcom[r]["extract_validate"], artifact_ok)
            csv == res.value.csv_line
        IN  /\ frame' = [ frame EXCEPT ![r] =
                    IF artifact_ok THEN frame_X(xcom[r]["extract_validate"].row) ELSE @ ]
            /\ IF res.ok
               THEN /\ Succeed(r, "transform")
                    /\ Return(r, "transform",
                              [ res.value EXCEPT !.csv_line =
                                  IF store = {}
                                  THEN << "0.0", "0.0" >> \o SubSeq(csv, 3, Len(csv))
                                  ELSE csv ])
               ELSE Fail(r, "transform", res.error) /\ UNCHANGED xcom
    /\ UNCHANGED << alive, store, outbox, clock, nruns, feed, reply, store0, replaced, loaded_at >>

transform(r) ==
    /\ Runnable(r, "transform")
    /\ \E artifact_ok \in BOOLEAN :
        LET res == transform_result(xcom[r]["extract_validate"], artifact_ok)
        IN  /\ frame' = [ frame EXCEPT ![r] =
                    IF artifact_ok THEN frame_X(xcom[r]["extract_validate"].row) ELSE @ ]
            /\ IF res.ok
               THEN Succeed(r, "transform") /\ Return(r, "transform", res.value)
               ELSE Fail(r, "transform", res.error) /\ UNCHANGED xcom
    /\ UNCHANGED << alive, store, outbox, clock, nruns, feed, reply, store0, replaced, loaded_at >>

score_sagemaker(r) ==
    /\ Runnable(r, "score_sagemaker")
    /\ \E resp \in EndpointResponses :
        LET res == score_result(xcom[r]["transform"], resp)
        IN  /\ reply' = [ reply EXCEPT ![r] = resp ]
            /\ IF res.ok
               THEN Succeed(r, "score_sagemaker") /\ Return(r, "score_sagemaker", res.value)
               ELSE Fail(r, "score_sagemaker", res.error) /\ UNCHANGED xcom
    /\ UNCHANGED << alive, store, outbox, clock, nruns, feed, store0, replaced, loaded_at, frame >>

\* What hook.run(sql, parameters=params) can meet: the statement commits, the
\* connection or the statement raises, or the database never answers (a lock
\* held by another session, a server that has stopped responding).
DbOutcomes == { "committed", "error", "no_answer" }

\* The write as a read followed by a write: whether the identifier exists is
\* read from the table as the run first saw it, then a plain INSERT or an
\* UPDATE is issued; the INSERT of an identifier that has appeared since
\* fails on the unique index.
load_to_postgres_read_then_write(r) ==
    /\ Runnable(r, "load_to_postgres")
    /\ clock' = clock + 1
    /\ \E db \in DbOutcomes :
        LET x == xcom[r]["score_sagemaker"]
            event_time == py_int(row_get(x.row, "current_time"))
            params == params_of(x, event_time.value)
            seen == \E old \in store0[r] : old.trans_num = params.trans_num
            there == \E old \in store : old.trans_num = params.trans_num
        IN  IF ~event_time.ok
            THEN /\ Fail(r, "load_to_postgres", event_time.error)
                 /\ UNCHANGED << xcom, store, replaced, loaded_at >>
            ELSE IF db = "error"
            THEN /\ Fail(r, "load_to_postgres", "OperationalError")
                 /\ UNCHANGED << xcom, store, replaced, loaded_at >>
            ELSE IF db = "no_answer"
            THEN /\ Finish(r, "load_to_postgres", "running", "none")
                 /\ UNCHANGED << xcom, error, store, replaced, loaded_at >>
            ELSE IF ~seen /\ there
            THEN /\ Fail(r, "load_to_postgres", "UniqueViolation")
                 /\ UNCHANGED << xcom, store, replaced, loaded_at >>
            ELSE /\ store' = upsert(store, params, clock')
                 /\ replaced' = [ replaced EXCEPT ![r] =
                        { old \in store : old.trans_num = params.trans_num } ]
                 /\ loaded_at' = [ loaded_at EXCEPT ![r] = clock' ]
                 /\ Succeed(r, "load_to_postgres")
                 /\ Return(r, "load_to_postgres",
                           [ trans_num   |-> params.trans_num,
                             fraud_flag  |-> params.fraud_flag,
                             fraud_proba |-> params.fraud_proba ])
    /\ UNCHANGED << alive, outbox, nruns, feed, reply, store0, frame >>

\* time.sleep(2) lets the database clock advance before the statement runs;
\* db is what hook.run meets.  No statement, lock or connection timeout is
\* set and the task has no execution_timeout: when the database does not
\* answer, the task instance stays running.
load_to_postgres(r) ==
    /\ Runnable(r, "load_to_postgres")
    /\ clock' = clock + 1
    /\ \E db \in DbOutcomes :
        LET x == xcom[r]["score_sagemaker"]
            event_time == py_int(row_get(x.row, "current_time"))
            params == params_of(x, event_time.value)
        IN  IF ~event_time.ok
            THEN /\ Fail(r, "load_to_postgres", event_time.error)
                 /\ UNCHANGED << xcom, store, replaced, loaded_at >>
            ELSE IF db = "error"
            THEN /\ Fail(r, "load_to_postgres", "OperationalError")
                 /\ UNCHANGED << xcom, store, replaced, loaded_at >>
            ELSE IF db = "no_answer"
            THEN /\ Finish(r, "load_to_postgres", "running", "none")
                 /\ UNCHANGED << xcom, error, store, replaced, loaded_at >>
            ELSE /\ store' = upsert(store, params, clock')
                 /\ replaced' = [ replaced EXCEPT ![r] =
                        { old \in store : old.trans_num = params.trans_num } ]
                 /\ loaded_at' = [ loaded_at EXCEPT ![r] = clock' ]
                 /\ Succeed(r, "load_to_postgres")
                 /\ Return(r, "load_to_postgres",
                           [ trans_num   |-> params.trans_num,
                             fraud_flag  |-> params.fraud_flag,
                             fraud_proba |-> params.fraud_proba ])
    /\ UNCHANGED << alive, outbox, nruns, feed, reply, store0, frame >>

\* The gate deciding from the probability again, with its own comparison.
is_fraud_rederived(r) ==
    /\ Runnable(r, "is_fraud")
    /\ IF xcom[r]["load_to_postgres"].fraud_proba > FRAUD_THRESHOLD
       THEN Finish(r, "is_fraud", "success", "none")
       ELSE Finish(r, "is_fraud", "success", "skipped")
    /\ UNCHANGED << alive, xcom, error, store, outbox, clock, nruns,
                    feed, reply, store0, replaced, loaded_at, frame >>

\* ShortCircuitOperator: a false return skips every downstream task.
is_fraud(r) ==
    /\ Runnable(r, "is_fraud")
    /\ IF xcom[r]["load_to_postgres"].fraud_flag
       THEN Finish(r, "is_fraud", "success", "none")
       ELSE Finish(r, "is_fraud", "success", "skipped")
    /\ UNCHANGED << alive, xcom, error, store, outbox, clock, nruns,
                    feed, reply, store0, replaced, loaded_at, frame >>

\* '%.4f' | format(p): the probability with four decimals.
format4(p) ==
    CASE p = 10  -> "0.1000"
      [] p = 50  -> "0.5000"
      [] p = 82  -> "0.8200"
      [] p = 150 -> "1.5000"
      [] p = -20 -> "-0.2000"
      [] OTHER   -> "0.0000"

\* The template with a model version that is not the one score_sagemaker
\* returns.
email_of_other_version(x) ==
    [ trans_num     |-> x.trans_num,
      fraud_proba   |-> format4(x.fraud_proba),
      threshold     |-> FRAUD_THRESHOLD,
      model_version |-> "xgb" ]

\* The message the EmailOperator renders from the XCom of load_to_postgres,
\* params.threshold and the literal model version of its template.
email_of(x) ==
    [ trans_num     |-> x.trans_num,
      fraud_proba   |-> format4(x.fraud_proba),
      threshold     |-> FRAUD_THRESHOLD,
      model_version |-> "xgb-rt" ]

\* The task with the run's write undone when the delivery fails.
send_fraud_email_rollback(r) ==
    /\ Runnable(r, "send_fraud_email")
    /\ \E smtp_ok \in BOOLEAN :
        IF smtp_ok
        THEN /\ outbox' = [ outbox EXCEPT ![r] = Append(@, email_of(xcom[r]["load_to_postgres"])) ]
             /\ Succeed(r, "send_fraud_email")
             /\ UNCHANGED store
        ELSE /\ Fail(r, "send_fraud_email", "SMTPException")
             /\ store' = store0[r]
             /\ UNCHANGED outbox
    /\ UNCHANGED << alive, xcom, clock, nruns, feed, reply, store0, replaced, loaded_at, frame >>

\* smtp_ok is whether the SMTP connection accepts the message.
send_fraud_email(r) ==
    /\ Runnable(r, "send_fraud_email")
    /\ \E smtp_ok \in BOOLEAN :
        IF smtp_ok
        THEN /\ outbox' = [ outbox EXCEPT ![r] = Append(@, email_of(xcom[r]["load_to_postgres"])) ]
             /\ Succeed(r, "send_fraud_email")
        ELSE /\ Fail(r, "send_fraud_email", "SMTPException")
             /\ UNCHANGED outbox
    /\ UNCHANGED << alive, xcom, store, clock, nruns, feed, reply, store0, replaced, loaded_at, frame >>

Next ==
    \/ schedule_run
    \/ \E r \in RunSlots : extract_validate(r)
    \/ \E r \in RunSlots : transform(r)
    \/ \E r \in RunSlots : score_sagemaker(r)
    \/ \E r \in RunSlots : load_to_postgres(r)
    \/ \E r \in RunSlots : is_fraud(r)
    \/ \E r \in RunSlots : send_fraud_email(r)

Spec == Init /\ [][Next]_vars

\* The scheduler creates the runs that are due and the executor runs every
\* task that is ready: no enabled step is put off for ever.
Fairness ==
    /\ WF_vars(schedule_run)
    /\ \A r \in RunSlots :
        /\ WF_vars(extract_validate(r))
        /\ WF_vars(transform(r))
        /\ WF_vars(score_sagemaker(r))
        /\ WF_vars(load_to_postgres(r))
        /\ WF_vars(is_fraud(r))
        /\ WF_vars(send_fraud_email(r))

FairSpec == Spec /\ Fairness

\* ------------------------------------------------- two concurrent writers

\* The slots of two pipelines that write the same table at the same time
\* (a second deployment of the DAG, or a run triggered past the cap).
Writers == { 1, 2 }

\* A writer's run is created whatever the other writer is doing.
start_writer ==
    \E r \in Writers :
        /\ ~alive[r]
        /\ alive' = [ alive EXCEPT ![r] = TRUE ]
        /\ store0' = [ store0 EXCEPT ![r] = store ]
        /\ nruns' = nruns + 1
        /\ UNCHANGED << ti, xcom, error, store, outbox, clock,
                        feed, reply, replaced, loaded_at, try_number, frame >>

NextWriters ==
    \/ start_writer
    \/ \E r \in Writers : extract_validate(r)
    \/ \E r \in Writers : transform(r)
    \/ \E r \in Writers : score_sagemaker(r)
    \/ \E r \in Writers : load_to_postgres(r)
    \/ \E r \in Writers : is_fraud(r)
    \/ \E r \in Writers : send_fraud_email(r)

SpecWriters == Init /\ [][NextWriters]_vars

\* ------------------------------------------------------------------ claims

\* The rows of the table under the identifier id.
RowsOf(id) == { row \in store : row.trans_num = id }

Loaded(r) == alive[r] /\ ti[r]["load_to_postgres"] = "success"

\* Run r's upsert is the latest one for its identifier.
LastWriter(r) ==
    /\ Loaded(r)
    /\ \A q \in RunSlots \ { r } :
        (Loaded(q) /\ xcom[q]["load_to_postgres"].trans_num
                        = xcom[r]["load_to_postgres"].trans_num)
            => loaded_at[q] < loaded_at[r]

\* C1 (idempotent upsert): once a run has upserted a transaction that an
\* earlier run had stored with another probability, the table holds exactly
\* one row under that identifier, with the probability p2 this run scored
\* and fraud_flag = (p2 >= threshold).
C1_IdempotentUpsert ==
    \A r \in RunSlots :
        LastWriter(r) =>
            LET x == xcom[r]["score_sagemaker"]
            IN  /\ Cardinality(RowsOf(x.trans_num)) = 1
                /\ \A row \in RowsOf(x.trans_num) :
                    /\ row.fraud_proba = x.fraud_proba
                    /\ row.fraud_flag = (x.fraud_proba >= FRAUD_THRESHOLD)

\* A run has replaced a row that held another probability and another flag.
C1_Witness ==
    \E r \in RunSlots :
        /\ LastWriter(r)
        /\ \E old \in replaced[r] :
            /\ old.fraud_proba # xcom[r]["score_sagemaker"].fraud_proba
            /\ old.fraud_flag # xcom[r]["score_sagemaker"].fraud_flag

\* The endpoint was called for run r and gave no parseable score.
ScorerFailed(r) ==
    /\ reply[r].called
    /\ \/ ~reply[r].reached
       \/ strip(reply[r].Body) \notin { "0.10", "0.5", "0.82", "1.5", "-0.2" }

\* Run r failed in extraction, transformation or scoring.
FailedBeforeLoad(r) ==
    \/ \E t \in { "extract_validate", "transform", "score_sagemaker" } :
        ti[r][t] = "failed"
    \/ ScorerFailed(r)

\* C2 (no partial write): a run that failed in extraction, transformation
\* or scoring (in particular one whose endpoint call failed) has left the
\* table exactly as it was when the run started, has written nothing and
\* has sent no notification.
C2_NoPartialWrite ==
    \A r \in RunSlots :
        (alive[r] /\ FailedBeforeLoad(r)) =>
            /\ store = store0[r]
            /\ ti[r]["load_to_postgres"] \notin { "success" }
            /\ outbox[r] = << >>
            /\ RunState(r) = "failed"

\* A run failed at scoring on an unparseable answer while the table already
\* held a row under the run's identifier.
C2_Witness ==
    \E r \in RunSlots :
        /\ ti[r]["score_sagemaker"] = "failed"
        /\ reply[r].reached
        /\ RowsOf(xcom[r]["transform"].trans_num) # {}

\* The flag the table holds for the transaction run r persisted.
PersistedFlag(r) ==
    \E row \in RowsOf(xcom[r]["load_to_postgres"].trans_num) : row.fraud_flag

Gated(r) == alive[r] /\ ti[r]["is_fraud"] = "success"

\* C3 (gating consistency): a run sends a notification only if the flag it
\* persisted is true; after the gate the e-mail task is skipped exactly when
\* the persisted flag is false, and then the run has ended in success with
\* no notification; a run that ended in success has sent one notification
\* if the persisted flag is true and none otherwise.
C3_GatingConsistency ==
    \A r \in RunSlots :
        /\ (alive[r] /\ outbox[r] # << >>) => (LastWriter(r) /\ PersistedFlag(r))
        /\ (Gated(r) /\ LastWriter(r)) =>
            /\ (ti[r]["send_fraud_email"] = "skipped") <=> ~PersistedFlag(r)
            /\ ~PersistedFlag(r) => (RunState(r) = "success" /\ outbox[r] = << >>)
            /\ RunState(r) = "success" =>
                   Len(outbox[r]) = (IF PersistedFlag(r) THEN 1 ELSE 0)

\* A run persisted a true flag at a probability equal to the threshold and
\* ended in success with its notification sent.
C3_Witness ==
    \E r \in RunSlots :
        /\ RunState(r) = "success"
        /\ LastWriter(r)
        /\ PersistedFlag(r)
        /\ xcom[r]["load_to_postgres"].fraud_proba = FRAUD_THRESHOLD
        /\ Len(outbox[r]) = 1

\* C4 (threshold boundary): every flag the scorer returns, the loader
\* returns or the table holds is (probability >= threshold): true at the
\* threshold and above it, false strictly below.
C4_ThresholdBoundary ==
    /\ \A row \in store : row.fraud_flag = (row.fraud_proba >= FRAUD_THRESHOLD)
    /\ \A r \in RunSlots :
        /\ ti[r]["score_sagemaker"] = "success" =>
               xcom[r]["score_sagemaker"].fraud_flag
                   = (xcom[r]["score_sagemaker"].fraud_proba >= FRAUD_THRESHOLD)
        /\ Loaded(r) =>
               xcom[r]["load_to_postgres"].fraud_flag
                   = (xcom[r]["load_to_postgres"].fraud_proba >= FRAUD_THRESHOLD)

\* The table holds a row scored exactly at the threshold, flagged, and a row
\* scored below it, not flagged.
C4_Witness ==
    /\ \E row \in store : row.fraud_proba = FRAUD_THRESHOLD /\ row.fraud_flag
    /\ \E row \in store : row.fraud_proba < FRAUD_THRESHOLD /\ ~row.fraud_flag

\* The row run r's upsert wrote is in the table as written.
RowOfRunStored(r) ==
    \E row \in store :
        /\ row.trans_num = xcom[r]["score_sagemaker"].trans_num
        /\ row.fraud_proba = xcom[r]["score_sagemaker"].fraud_proba
        /\ row.fraud_flag = xcom[r]["score_sagemaker"].fraud_flag
        /\ row.model_version = xcom[r]["score_sagemaker"].model_version
        /\ row.amt = row_get(xcom[r]["score_sagemaker"].row, "amt")

\* C5 (persist/notify asymmetry): a run whose upsert succeeded and whose
\* notification then failed leaves the row it wrote in the table, with the
\* values it wrote.
C5_PersistSurvivesNotifyFailure ==
    \A r \in RunSlots :
        (LastWriter(r) /\ ti[r]["send_fraud_email"] = "failed") =>
            /\ RowOfRunStored(r)
            /\ Cardinality(store) >= Cardinality(store0[r])

\* A run updated an existing row and then failed to deliver its e-mail.
C5_Witness ==
    \E r \in RunSlots :
        /\ LastWriter(r)
        /\ ti[r]["send_fraud_email"] = "failed"
        /\ error[r] = "SMTPException"
        /\ replaced[r] # {}

\* C6 (the scorer rejects out-of-range scores): every probability in the
\* table lies in [0,1], and a run whose endpoint answered a number outside
\* [0,1] failed at scoring and left the table as it was.
C6_ScoreRangeEnforced ==
    /\ \A row \in store : row.fraud_proba >= 0 /\ row.fraud_proba <= 100
    /\ \A r \in RunSlots :
        (reply[r].called /\ reply[r].reached
            /\ strip(reply[r].Body) \in { "1.5", "-0.2" }) =>
            /\ ti[r]["score_sagemaker"] = "failed"
            /\ store = store0[r]

\* The request of run r was answered in time with status 200 by a
\* double-encoded JSON object with both keys whose rows have one cell per
\* column.
Delivered(r) ==
    /\ feed[r].status = 200
    /\ feed[r].elapsed <= FEED_TIMEOUT
    /\ feed[r].text.valid
    /\ feed[r].text.keys = { "columns", "data" }
    /\ \A i \in 1..Len(feed[r].text.data) :
        Len(feed[r].text.data[i]) = Len(feed[r].text.columns)

\* The identifier cells of the first row of run r's payload (none when the
\* payload has no trans_num column).
FirstIds(r) ==
    { feed[r].text.data[1][i] :
        i \in { j \in 1..Len(feed[r].text.columns) :
                  feed[r].text.columns[j] = "trans_num" } }

EmptyFeed(r) ==
    Delivered(r) /\ feed[r].text.enc = 2 /\ Len(feed[r].text.data) = 0

MissingId(r) ==
    /\ Delivered(r) /\ feed[r].text.enc = 2
    /\ Len(feed[r].text.data) >= 1
    /\ FirstIds(r) \subseteq { Null, "" }

\* Extraction of run r failed with exception e, nothing was returned, no
\* later task ran and the table is as it was.
ExtractionFailed(r, e) ==
    /\ ti[r]["extract_validate"] = "failed"
    /\ error[r] = e
    /\ xcom[r]["extract_validate"] = NoExtract
    /\ \A t \in TaskIds \ { "extract_validate" } : ti[r][t] = "upstream_failed"
    /\ store = store0[r]
    /\ outbox[r] = << >>

\* C7 (extractor validation): a payload with no data row fails the run at
\* extraction (empty feed), and a first row whose trans_num is absent, null
\* or empty fails it at extraction (missing identifier); nothing is
\* returned in its place, no later task runs and the table is unchanged.
C7_ExtractorValidation ==
    \A r \in RunSlots :
        /\ EmptyFeed(r) =>
               ExtractionFailed(r, "ValueError: API returned empty dataframe")
        /\ MissingId(r) =>
               ExtractionFailed(r, "ValueError: Missing trans_num in payload")

\* A run received a first row with an empty identifier while the table
\* held rows already.
C7_Witness ==
    \E r \in RunSlots :
        /\ MissingId(r)
        /\ FirstIds(r) = { "" }
        /\ store # {}

\* Run r's payload is a columns/data object with at least one row and a
\* non-empty identifier in the first row, in any encoding.
WellFormed(r) ==
    /\ Delivered(r)
    /\ Len(feed[r].text.data) >= 1
    /\ FirstIds(r) # {}
    /\ FirstIds(r) \cap { Null, "" } = {}

\* Extraction of run r returned the first row of its payload.
ReturnedFirstRow(r) ==
    LET doc == feed[r].text
        x == xcom[r]["extract_validate"]
    IN  /\ ti[r]["extract_validate"] = "success"
        /\ DOMAIN x.row = { doc.columns[i] : i \in 1..Len(doc.columns) }
        /\ \A i \in 1..Len(doc.columns) : x.row[doc.columns[i]] = doc.data[1][i]
        /\ { x.trans_num } = FirstIds(r)

\* C8 as stated (payload encoding tolerance): a well-formed payload is
\* extracted, first row returned, whether it is singly or doubly encoded.
C8_EncodingTolerance ==
    \A r \in RunSlots :
        (WellFormed(r) /\ feed[r].text.enc \in { 1, 2 }) => ReturnedFirstRow(r)

\* C8 as amended: a well-formed payload is extracted, first row returned and
\* further rows ignored, when it is double-encoded; a singly encoded one
\* fails the run at extraction with a TypeError.
C8_DoubleEncodedOnly ==
    \A r \in RunSlots :
        /\ (WellFormed(r) /\ feed[r].text.enc = 2) => ReturnedFirstRow(r)
        /\ (WellFormed(r) /\ feed[r].text.enc = 1) =>
               ExtractionFailed(r, "TypeError")

\* A double-encoded payload of two rows was extracted.
C8_Witness ==
    \E r \in RunSlots :
        /\ WellFormed(r)
        /\ feed[r].text.enc = 2
        /\ Len(feed[r].text.data) = 2
        /\ ti[r]["extract_validate"] = "success"

\* C9 (serialized runs): at most one run is in a non-terminal state.
C9_SerializedRuns == Cardinality(ActiveRuns) <= 1

\* A second run is under way, the first having ended with its row stored.
C9_Witness ==
    /\ nruns >= 2
    /\ Cardinality(ActiveRuns) = 1
    /\ \E r \in ActiveRuns : ti[r]["transform"] = "success"
    /\ store # {}

\* C10 (last writer wins, no field mixing): the table holds, under the
\* identifier of the latest run that upserted it, one row whose every raw and
\* scored field is the value that run extracted and scored.
C10_LastWriterWins ==
    \A r \in RunSlots :
        LastWriter(r) =>
            LET raw == xcom[r]["extract_validate"].row
                scored == xcom[r]["score_sagemaker"]
            IN  /\ Cardinality(RowsOf(xcom[r]["extract_validate"].trans_num)) = 1
                /\ \A row \in RowsOf(xcom[r]["extract_validate"].trans_num) :
                    /\ \A c \in RawColumns : row[c] = row_get(raw, c)
                    /\ row.event_time = py_int(row_get(raw, "current_time")).value
                    /\ row.fraud_proba = scored.fraud_proba
                    /\ row.fraud_flag = scored.fraud_flag
                    /\ row.model_version = "xgb-rt"

\* A run overwrote a row that differed from its own in the amount, the
\* gender, the event time and the probability.
C10_Witness ==
    \E r \in RunSlots :
        /\ LastWriter(r)
        /\ \E old \in replaced[r] :
            /\ old.amt # row_get(xcom[r]["extract_validate"].row, "amt")
            /\ old.gender # row_get(xcom[r]["extract_validate"].row, "gender")
            /\ old.event_time # py_int(row_get(xcom[r]["extract_validate"].row, "current_time")).value
            /\ old.fraud_proba # xcom[r]["score_sagemaker"].fraud_proba

\* The columns of a table row that the statement's parameters supply.
ParamColumns ==
    RawColumns \cup { "trans_num", "event_time", "fraud_proba", "fraud_flag", "model_version" }

\* The row the parameters of writer r's statement describe, field by field.
WroteFieldsOf(row, r) ==
    LET x == xcom[r]["score_sagemaker"]
        params == params_of(x, py_int(row_get(x.row, "current_time")).value)
    IN  \A c \in ParamColumns : row[c] = params[c]

\* Writers r and q both executed their statement for one identifier while
\* the other's run was under way.
WroteConcurrently(r, q) ==
    /\ r # q
    /\ ti[r]["load_to_postgres"] \in { "success", "failed" }
    /\ ti[q]["load_to_postgres"] \in { "success", "failed" }
    /\ xcom[r]["score_sagemaker"].trans_num = xcom[q]["score_sagemaker"].trans_num
    /\ store0[r] = {}
    /\ store0[q] = {}

\* C11 (atomic upsert under concurrent writers): when two writers upsert one
\* identifier at the same time, neither statement fails on the conflict, the
\* table holds exactly one row under the identifier once either has
\* committed, and that row is, in every field, the row of one of the two.
C11_AtomicUpsert ==
    \A r, q \in Writers :
        WroteConcurrently(r, q) =>
            LET id == xcom[r]["score_sagemaker"].trans_num
            IN  /\ error[r] # "UniqueViolation"
                /\ error[q] # "UniqueViolation"
                /\ (Loaded(r) \/ Loaded(q)) =>
                      /\ Cardinality(RowsOf(id)) = 1
                      /\ \A row \in RowsOf(id) :
                            \E w \in { r, q } : Loaded(w) /\ WroteFieldsOf(row, w)

\* Both writers committed a row for one identifier, each run having started
\* before the other wrote, and the two rows differed.
C11_Witness ==
    \E r, q \in Writers :
        /\ WroteConcurrently(r, q)
        /\ Loaded(r)
        /\ Loaded(q)
        /\ loaded_at[r] < loaded_at[q]
        /\ \E old \in replaced[q] : ~WroteFieldsOf(old, q)

\* Task t of run r was started.
Started(r, t) == ti[r][t] \in { "running", "success", "failed" }

\* What each finished stage of run r holds was read from the stages before
\* it in the same run.
ReadsFromEarlier(r) ==
    /\ ti[r]["transform"] = "success" =>
          /\ xcom[r]["transform"].trans_num = xcom[r]["extract_validate"].trans_num
          /\ xcom[r]["transform"].row = xcom[r]["extract_validate"].row
    /\ ti[r]["score_sagemaker"] = "success" =>
          /\ xcom[r]["score_sagemaker"].trans_num = xcom[r]["transform"].trans_num
          /\ xcom[r]["score_sagemaker"].row = xcom[r]["transform"].row
    /\ ti[r]["load_to_postgres"] = "success" =>
          /\ xcom[r]["load_to_postgres"].trans_num = xcom[r]["score_sagemaker"].trans_num
          /\ xcom[r]["load_to_postgres"].fraud_proba = xcom[r]["score_sagemaker"].fraud_proba
          /\ xcom[r]["load_to_postgres"].fraud_flag = xcom[r]["score_sagemaker"].fraud_flag
    /\ \A i \in 1..Len(outbox[r]) :
          outbox[r][i].trans_num = xcom[r]["load_to_postgres"].trans_num
    /\ \A t \in DOMAIN NoXCom : ti[r][t] # "success" => xcom[r][t] = NoXCom[t]

\* A step that leaves run r in its slot never changes a task that has left
\* the state none.
NeverBackwards ==
    \A r \in RunSlots :
        (alive[r] /\ nruns' = nruns) =>
            \A t \in TaskIds : ti[r][t] # "none" => ti'[r][t] = ti[r][t]

\* C12 (strictly linear control flow): within a run a stage is started only
\* when every stage before it in the order extract, transform, score, persist,
\* gate, notify has succeeded; a stage that has left the state none never
\* changes again; each stage holds only values of earlier stages of its run.
C12_LinearControlFlow ==
    /\ [](\A r \in RunSlots : alive[r] =>
            /\ \A i \in 1..Len(Tasks) :
                  Started(r, Tasks[i]) =>
                      \A j \in 1..(i - 1) : ti[r][Tasks[j]] = "success"
            /\ ReadsFromEarlier(r))
    /\ [][NeverBackwards]_vars

\* A run went through all six stages and sent its e-mail.
C12_Witness ==
    \E r \in RunSlots :
        /\ alive[r]
        /\ \A t \in TaskIds : ti[r][t] = "success"
        /\ Len(outbox[r]) = 1

\* Runs r and q both encoded the same raw record with the artifact loaded.
EncodedSameRecord(r, q) ==
    /\ r # q
    /\ ti[r]["transform"] = "success"
    /\ ti[q]["transform"] = "success"
    /\ xcom[r]["extract_validate"].row = xcom[q]["extract_validate"].row

C14_StoreKeyInvariant ==
    /\ \A row \in store : row.trans_num \notin { Null, "" }
    /\ \A a, b \in store : a.trans_num = b.trans_num => a = b
    /\ \A r \in RunSlots :
          (LastWriter(r) /\ store0[r] # {} /\ replaced[r] = store0[r]) =>
              Cardinality(store) = Cardinality(store0[r])

\* A run observed again the one transaction the table held and changed its
\* row; the table still holds one row.
C14_Witness ==
    \E r \in RunSlots :
        /\ Loaded(r)
        /\ replaced[r] # {}
        /\ replaced[r] = store0[r]
        /\ store # store0[r]
        /\ Cardinality(store) = 1

\* C15 (no internal retries): within a run no task is executed more than
\* once, so the run makes at most one feed request, one endpoint call and one
\* store write; a task whose execution raised is failed, and so is its run.
C15_NoInternalRetries ==
    \A r \in RunSlots :
        alive[r] =>
            /\ \A t \in TaskIds : try_number[r][t] <= 1
            /\ \A t \in TaskIds : ti[r][t] = "none" => try_number[r][t] = 0
            /\ error[r] # NoError =>
                  /\ RunState(r) = "failed"
                  /\ \E t \in TaskIds : ti[r][t] = "failed"

\* The endpoint could not be reached: the one call was not repeated and the
\* run failed.
C15_Witness ==
    \E r \in RunSlots :
        /\ reply[r].called
        /\ ~reply[r].reached
        /\ try_number[r]["score_sagemaker"] = 1
        /\ ti[r]["score_sagemaker"] = "failed"
        /\ RunState(r) = "failed"

\* Run r's statement commits in this step.
Commits(r) ==
    /\ ti[r]["load_to_postgres"] = "none"
    /\ ti'[r]["load_to_postgres"] = "success"

\* Every identifier of the table is still in the table after the step, with
\* an ingestion time that has not gone back; the rows under the identifier of
\* a statement that commits in the step get a later ingestion time.
RecordsKeptAndAdvanced ==
    /\ \A old \in store :
          \E new \in store' :
              /\ new.trans_num = old.trans_num
              /\ new.ingested_at >= old.ingested_at
    /\ \A r \in RunSlots :
          Commits(r) =>
              \A old \in store :
                  old.trans_num = xcom'[r]["load_to_postgres"].trans_num =>
                      \A new \in store' :
                          new.trans_num = old.trans_num =>
                              new.ingested_at > old.ingested_at

\* C16 (record lifecycle): no step of the pipeline removes an identifier from
\* the table, and each replay of an identifier that reaches the upsert
\* strictly advances the ingestion timestamp of its row.
C16_RecordLifecycle == [][RecordsKeptAndAdvanced]_vars

\* A replay reached the upsert: the row now under the identifier was
\* ingested later than the row the run found there.
C16_Witness ==
    \E r \in RunSlots :
        /\ LastWriter(r)
        /\ \E old \in replaced[r] :
            /\ old.ingested_at > 0
            /\ \E row \in RowsOf(old.trans_num) : row.ingested_at > old.ingested_at

\* The label, timestamp, name, address, date-of-birth, card-number and
\* transaction-identifier columns of the feed.
LeakageColumns ==
    { "is_fraud" }
    \cup { "current_time", "trans_date_trans_time", "unix_time" }
    \cup { "first", "last" }
    \cup { "street", "city" }
    \cup { "dob", "cc_num", "trans_num" }

\* Run r loaded the artifact and called its transform.
Encoded(r) == alive[r] /\ try_number[r]["transform"] = 1 /\ error[r] # "FileNotFoundError"

\* C17 (leakage columns never reach the encoder): the frame a run hands to
\* the artifact's transform holds none of the leakage columns and every other
\* column of the raw record, each with the record's value, except gender,
\* which is 0 for M and 1 for F.
C17_LeakageColumnsDropped ==
    \A r \in RunSlots :
        Encoded(r) =>
            LET row == xcom[r]["extract_validate"].row
            IN  /\ DOMAIN frame[r] \cap LeakageColumns = {}
                /\ DOMAIN frame[r] = DOMAIN row \ LeakageColumns
                /\ \A c \in DOMAIN frame[r] \ { "gender" } : frame[r][c] = row[c]
                /\ ("gender" \in DOMAIN row /\ row["gender"] = "M") => frame[r]["gender"] = "0"
                /\ ("gender" \in DOMAIN row /\ row["gender"] = "F") => frame[r]["gender"] = "1"

\* The artifact received the frame of a record that has every leakage
\* column: the frame holds the state, the amount and the recoded gender.
C17_Witness ==
    \E r \in RunSlots :
        /\ Encoded(r)
        /\ LeakageColumns \subseteq DOMAIN xcom[r]["extract_validate"].row
        /\ xcom[r]["extract_validate"].row["gender"] = "F"
        /\ DOMAIN frame[r] = { "merchant", "category", "amt", "gender", "state" }
        /\ frame[r]["gender"] = "1"

\* C18 (every run terminates): a run that has been started eventually
\* reaches a terminal state, success or failed; a stage whose blocking call
\* never answers fails instead of leaving the run running for ever.
C18_EveryRunTerminates ==
    \A r \in RunSlots :
        (RunState(r) = "running") ~> (RunState(r) \in { "success", "failed" })

\* E-mail m renders row: its identifier, its probability with four decimals,
\* the threshold its flag derives from, and its model version.
Renders(m, row) ==
    /\ m.trans_num = row.trans_num
    /\ m.fraud_proba = format4(row.fraud_proba)
    /\ row.fraud_proba = 82 => m.fraud_proba = "0.8200"
    /\ row.fraud_flag = (row.fraud_proba >= m.threshold)
    /\ m.model_version = row.model_version

\* C19 (notification matches the persisted record): a run sends at most one
\* notification; a run that ended in success with a true flag in the table
\* sent exactly one; and a notification carries the identifier and the
\* probability of the row the run's upsert wrote, the threshold that row's
\* flag derives from and that row's model version.
C19_NotificationMatchesRecord ==
    \A r \in RunSlots :
        alive[r] =>
            /\ Len(outbox[r]) <= 1
            /\ (RunState(r) = "success" /\ LastWriter(r) /\ PersistedFlag(r)) =>
                  Len(outbox[r]) = 1
            /\ (Len(outbox[r]) = 1 /\ LastWriter(r)) =>
                  /\ PersistedFlag(r)
                  /\ \A row \in RowsOf(xcom[r]["load_to_postgres"].trans_num) :
                        Renders(outbox[r][1], row)

\* A run stored T1 with probability 0.82 and its notification shows T1 and
\* 0.8200.
C19_Witness ==
    \E r \in RunSlots :
        /\ LastWriter(r)
        /\ Len(outbox[r]) = 1
        /\ outbox[r][1].trans_num = "T1"
        /\ outbox[r][1].fraud_proba = "0.8200"
        /\ \E row \in RowsOf("T1") : row.fraud_proba = 82

\* C20 (raw fields pass through unmodified): the row transform returns and
\* the row score_sagemaker returns are the row the extractor returned, and the
\* raw fields of the row a run writes to the table are that row's values; the
\* gender is stored as the feed gave it, not as the 0 or 1 the encoder got.
C20_RawFieldsPassThrough ==
    \A r \in RunSlots :
        alive[r] =>
            LET raw == xcom[r]["extract_validate"].row
            IN  /\ ti[r]["transform"] = "success" => xcom[r]["transform"].row = raw
                /\ ti[r]["score_sagemaker"] = "success" => xcom[r]["score_sagemaker"].row = raw
                /\ LastWriter(r) =>
                      \A row \in RowsOf(xcom[r]["load_to_postgres"].trans_num) :
                          /\ \A c \in RawColumns : row[c] = row_get(raw, c)
                          /\ feed[r].text.columns[7] = "gender"
                          /\ row.gender = feed[r].text.data[1][7]

\* The encoder got gender 1 for a record of gender F, and the table holds F.
C20_Witness ==
    \E r \in RunSlots :
        /\ LastWriter(r)
        /\ row_get(xcom[r]["extract_validate"].row, "gender") = "F"
        /\ frame[r]["gender"] = "1"
        /\ \E row \in RowsOf(xcom[r]["load_to_postgres"].trans_num) : row.gender = "F"

\* The current_time cells of the first row of run r's payload (none when the
\* payload has no current_time column).
FirstTimes(r) ==
    { feed[r].text.data[1][i] :
        i \in { j \in 1..Len(feed[r].text.columns) :
                  feed[r].text.columns[j] = "current_time" } }

\* Run r's feed delivered a record with an identifier whose event timestamp
\* is missing, null or no integer.
BadTime(r) ==
    /\ WellFormed(r)
    /\ feed[r].text.enc = 2
    /\ FirstTimes(r) \cap { "100", "200", "300" } = {}

====
